---------------------------- MODULE Spec2Model ----------------------------
(***************************************************************************)
(* LLMChat (src/validator.ts): an in-memory store of chat conversations    *)
(* and the asynchronous sendMessage / updateSummary operations that call   *)
(* the LLM backend under a timeout, a retry loop and response validation.  *)
(*                                                                         *)
(* Strings are sequences of one-character strings.  Chat objects live in   *)
(* heap, addressed by reference (a natural number); chats is the       *)
(* private array this.chats of references.  Every asynchronous call is a   *)
(* record in calls whose pc names the suspension point it waits at.      *)
(* The code between two suspension points runs to completion on the        *)
(* single JavaScript thread, so each action is one such run.               *)
(***************************************************************************)
EXTENDS Integers, Sequences, FiniteSets, TLC

(***************************************************************************)
(* Bounds of the model.                                                    *)
(***************************************************************************)
MaxChats == 2        \* chat objects ever created by makeChat
MaxCalls == 3        \* sendMessage / updateSummary calls ever started
MaxTime  == 1        \* largest value Date.now() returns
MaxReads == 1        \* getChats calls
MaxInvocations == 5  \* llm.executeLLM invocations ever issued
MaxLate  == 1        \* timed-out llm.executeLLM invocations still running
MaxEdits == 1        \* changes the caller makes to one getChats result

(***************************************************************************)
(* Program constants.                                                      *)
(***************************************************************************)
maxRetries == 3      \* default parameter of callLLMWithValidation
timeoutMs  == 10000  \* default parameter of callLLMWithValidation
backoffMs  == 500    \* factor of the wait between attempts

(***************************************************************************)
(* Inputs.                                                                 *)
(***************************************************************************)
Names    == { <<"X">>, <<"Y">> }
Contents == { <<"H", "i">>, << >> }

ChatRefs == 1..MaxChats
CallIds  == 1..MaxCalls

(***************************************************************************)
(* String helpers.                                                         *)
(***************************************************************************)
Lower == <<"a","b","c","d","e","f","g","h","i","j","k","l","m",
           "n","o","p","q","r","s","t","u","v","w","x","y","z">>
Upper == <<"A","B","C","D","E","F","G","H","I","J","K","L","M",
           "N","O","P","Q","R","S","T","U","V","W","X","Y","Z">>

Max(a, b) == IF a >= b THEN a ELSE b

\* String.prototype.toUpperCase on one character
UpperChar(ch) ==
    IF \E i \in 1..Len(Lower) : Lower[i] = ch
    THEN Upper[CHOOSE i \in 1..Len(Lower) : Lower[i] = ch]
    ELSE ch

\* String.prototype.toUpperCase
toUpperCase(s) == [i \in 1..Len(s) |-> UpperChar(s[i])]

RoleUser == <<"u","s","e","r">>
RoleLLM  == <<"l","l","m">>


\* the element of a one-element set.  Only({e : v \in {x}}) is e with v bound
\* to the value of x: x is evaluated once, however often e uses v
Only(S) == CHOOSE r \in S : TRUE

\* does pat occur in s at position i (1-based)?
MatchAt(s, i, pat) ==
    /\ i + Len(pat) - 1 <= Len(s)
    /\ \A k \in 1..Len(pat) : s[i + k - 1] = pat[k]

\* the grave accent U+0060; the atom stands for that one character
Backtick == "BACKTICK"
Fence   == <<Backtick, Backtick, Backtick>>
JsonTag == <<"j","s","o","n">>

\* first replace of cleanJSON (fence with optional json tag, global):
\* leftmost non-overlapping matches, the optional group is greedy
RECURSIVE StripFenceJson(_, _, _)
StripFenceJson(s, i, acc) ==
    IF i > Len(s) THEN acc
    ELSE IF MatchAt(s, i, Fence)
         THEN IF MatchAt(s, i + 3, JsonTag)
              THEN StripFenceJson(s, i + 7, acc)
              ELSE StripFenceJson(s, i + 3, acc)
         ELSE Only({StripFenceJson(s, i + 1, a) : a \in {Append(acc, s[i])}})

\* second replace of cleanJSON (bare fence, global)
RECURSIVE StripFence(_, _, _)
StripFence(s, i, acc) ==
    IF i > Len(s) THEN acc
    ELSE IF MatchAt(s, i, Fence)
         THEN StripFence(s, i + 3, acc)
         ELSE Only({StripFence(s, i + 1, a) : a \in {Append(acc, s[i])}})

WhiteSpace == {" ", "\n", "\t", "\r"}

\* String.prototype.trim
trim(s) ==
    LET keep == {i \in 1..Len(s) : s[i] \notin WhiteSpace}
    IN  IF keep = {} THEN << >>
        ELSE SubSeq(s, CHOOSE i \in keep : \A j \in keep : i <= j,
                       CHOOSE i \in keep : \A j \in keep : i >= j)

\* the first replace of cleanJSON, on the whole string
replaceFenceJson(raw) == Only({StripFenceJson(r, 1, << >>) : r \in {raw}})

\* the second replace of cleanJSON, on the whole string
replaceFence(s) == Only({StripFence(r, 1, << >>) : r \in {s}})

cleanJSON(raw) ==
    Only({trim(r) : r \in {replaceFence(replaceFenceJson(raw))}})

(***************************************************************************)
(* JSON.parse on the grammar of RFC 8259 restricted to: objects, arrays,   *)
(* strings with the escapes \" \\ \/ \n \t, integers without fraction or   *)
(* exponent, and the literals null, true, false.  A parse result is        *)
(* [ok, val, next]; next is the position after the value.                  *)
(***************************************************************************)
Digits == {"0","1","2","3","4","5","6","7","8","9"}
Fail   == [ok |-> FALSE, val |-> [t |-> "undefined"], next |-> 0]
Ok(v, n) == [ok |-> TRUE, val |-> v, next |-> n]

\* the first position at or after i that holds no white space
SkipWs(s, i) ==
    IF \E k \in i..Len(s) : s[k] \notin WhiteSpace
    THEN CHOOSE k \in i..Len(s) :
            s[k] \notin WhiteSpace /\ \A m \in i..(k - 1) : s[m] \in WhiteSpace
    ELSE Max(i, Len(s) + 1)

\* characters of a string body from position i up to the closing quote
RECURSIVE ParseChars(_, _, _)
ParseChars(s, i, acc) ==
    IF i > Len(s) THEN Fail
    ELSE IF s[i] = "\"" THEN Ok([t |-> "string", s |-> acc], i + 1)
    ELSE IF s[i] = "\\"
         THEN IF i + 1 > Len(s) THEN Fail
              ELSE IF s[i + 1] \in {"\"", "\\", "/"}
                   THEN Only({ParseChars(s, i + 2, a) : a \in {Append(acc, s[i + 1])}})
              ELSE IF s[i + 1] = "n"
                   THEN Only({ParseChars(s, i + 2, a) : a \in {Append(acc, "\n")}})
              ELSE IF s[i + 1] = "t"
                   THEN Only({ParseChars(s, i + 2, a) : a \in {Append(acc, "\t")}})
              ELSE Fail
    ELSE IF s[i] \in {"\n", "\t", "\r"} THEN Fail
    ELSE Only({ParseChars(s, i + 1, a) : a \in {Append(acc, s[i])}})

ParseString(s, i) ==
    IF i <= Len(s) /\ s[i] = "\"" THEN ParseChars(s, i + 1, << >>) ELSE Fail

\* the first position at or after i that holds no digit
DigitsEnd(s, i) ==
    IF \E k \in i..Len(s) : s[k] \notin Digits
    THEN CHOOSE k \in i..Len(s) :
            s[k] \notin Digits /\ \A m \in i..(k - 1) : s[m] \in Digits
    ELSE Max(i, Len(s) + 1)

ParseNumber(s, i) ==
    LET d == IF i <= Len(s) /\ s[i] = "-" THEN i + 1 ELSE i
        e == DigitsEnd(s, d)
    IN  IF e = d THEN Fail
        ELSE IF s[d] = "0" /\ e > d + 1 THEN Ok([t |-> "number", s |-> <<"0">>], d + 1)
        ELSE Ok([t |-> "number", s |-> SubSeq(s, i, e - 1)], e)

\* obj[key] = val on an object kept as parallel sequences in insertion order
PutKey(obj, key, val) ==
    IF \E k \in 1..Len(obj.keys) : obj.keys[k] = key
    THEN [obj EXCEPT !.vals[CHOOSE k \in 1..Len(obj.keys) : obj.keys[k] = key] = val]
    ELSE [obj EXCEPT !.keys = Append(@, key), !.vals = Append(@, val)]

EmptyObject == [t |-> "object", keys |-> << >>, vals |-> << >>]
EmptyArray  == [t |-> "array", elems |-> << >>]

RECURSIVE ParseValue(_, _), ParseMembers(_, _, _), ParseElements(_, _, _)
RECURSIVE AfterKey(_, _, _), AfterColon(_, _, _, _), AfterMember(_, _, _, _)
RECURSIVE NextMember(_, _, _), AfterElement(_, _, _), NextElement(_, _, _)
RECURSIVE ValueAt(_, _)

\* members of an object; i is at the start of a member: its key k, ...
ParseMembers(s, i, obj) ==
    Only({AfterKey(s, obj, k) : k \in {ParseString(s, SkipWs(s, i))}})

\* ... the colon at c, ...
AfterKey(s, obj, k) ==
    IF ~k.ok THEN Fail
    ELSE Only({AfterColon(s, obj, k, c) : c \in {SkipWs(s, k.next)}})

\* ... its value v, ...
AfterColon(s, obj, k, c) ==
    IF ~(c <= Len(s) /\ s[c] = ":") THEN Fail
    ELSE Only({AfterMember(s, obj, k, v) : v \in {ParseValue(s, c + 1)}})

\* ... the object o with the member put in, and what follows at n
AfterMember(s, obj, k, v) ==
    IF ~v.ok THEN Fail
    ELSE Only({NextMember(s, o, n) : o \in {PutKey(obj, k.val.s, v.val)},
                                     n \in {SkipWs(s, v.next)}})

NextMember(s, o, n) ==
    IF n > Len(s) THEN Fail
    ELSE IF s[n] = "}" THEN Ok(o, n + 1)
    ELSE IF s[n] = "," THEN ParseMembers(s, n + 1, o)
    ELSE Fail

\* elements of an array; i is at the start of an element: its value v, ...
ParseElements(s, i, arr) ==
    Only({AfterElement(s, arr, v) : v \in {ParseValue(s, i)}})

\* ... the array a with the element appended, and what follows at n
AfterElement(s, arr, v) ==
    IF ~v.ok THEN Fail
    ELSE Only({NextElement(s, a, n) : a \in {[arr EXCEPT !.elems = Append(@, v.val)]},
                                      n \in {SkipWs(s, v.next)}})

NextElement(s, a, n) ==
    IF n > Len(s) THEN Fail
    ELSE IF s[n] = "]" THEN Ok(a, n + 1)
    ELSE IF s[n] = "," THEN ParseElements(s, n + 1, a)
    ELSE Fail

\* the value that starts at or after position j, white space skipped
ParseValue(s, j) == Only({ValueAt(s, i) : i \in {SkipWs(s, j)}})

ValueAt(s, i) ==
    IF i > Len(s) THEN Fail
    ELSE IF s[i] = "{"
         THEN IF MatchAt(s, SkipWs(s, i + 1), <<"}">>)
              THEN Ok(EmptyObject, SkipWs(s, i + 1) + 1)
              ELSE ParseMembers(s, i + 1, EmptyObject)
    ELSE IF s[i] = "["
         THEN IF MatchAt(s, SkipWs(s, i + 1), <<"]">>)
              THEN Ok(EmptyArray, SkipWs(s, i + 1) + 1)
              ELSE ParseElements(s, i + 1, EmptyArray)
    ELSE IF s[i] = "\"" THEN ParseString(s, i)
    ELSE IF s[i] = "-" \/ s[i] \in Digits THEN ParseNumber(s, i)
    ELSE IF MatchAt(s, i, <<"n","u","l","l">>) THEN Ok([t |-> "null"], i + 4)
    ELSE IF MatchAt(s, i, <<"t","r","u","e">>) THEN Ok([t |-> "boolean", b |-> TRUE], i + 4)
    ELSE IF MatchAt(s, i, <<"f","a","l","s","e">>) THEN Ok([t |-> "boolean", b |-> FALSE], i + 5)
    ELSE Fail

\* one value surrounded by white space and nothing else
WholeValue(s, v) == IF v.ok /\ SkipWs(s, v.next) > Len(s) THEN v ELSE Fail

\* JSON.parse
JSONparse(text) == Only({WholeValue(s, ParseValue(s, 1)) : s \in {text}})

\* the typeof operator on a parsed JSON value
typeof(v) == IF v.t \in {"object", "array", "null"} THEN "object" ELSE v.t

\* the in operator for the property name "reply"
ReplyKey == <<"r","e","p","l","y">>
HasReply(v) == v.t = "object" /\ \E k \in 1..Len(v.keys) : v.keys[k] = ReplyKey
GetReply(v) == v.vals[CHOOSE k \in 1..Len(v.keys) : v.keys[k] = ReplyKey]

\* Object.keys(parsed).length
NumKeys(v) == IF v.t = "object" THEN Len(v.keys)
              ELSE IF v.t = "array" THEN Len(v.elems) ELSE 0

(***************************************************************************)
(* validateLLMResponse: [ok, reply, msg]; msg names the Error thrown.      *)
(***************************************************************************)
Accept(reply) == [ok |-> TRUE, reply |-> reply, msg |-> "none"]
Reject(msg)   == [ok |-> FALSE, reply |-> << >>, msg |-> msg]

\* the try block: the parsed value, or a failed parse where the code catches
tryParse(raw) == Only({JSONparse(cleaned) : cleaned \in {cleanJSON(raw)}})

\* variant: the object may hold other keys beside reply
checkParsed_lenient(p) ==
    IF ~p.ok THEN Reject("not valid JSON")
    ELSE IF typeof(p.val) # "object" \/ p.val.t = "null"
         THEN Reject("not a JSON object")
    ELSE IF ~HasReply(p.val) THEN Reject("missing reply")
    ELSE IF GetReply(p.val).t # "string" THEN Reject("reply must be a string")
    ELSE Accept(GetReply(p.val).s)

\* the checks on the parsed value, in the order of the code
checkParsed(p) ==
    IF ~p.ok THEN Reject("not valid JSON")
    ELSE IF typeof(p.val) # "object" \/ p.val.t = "null"
         THEN Reject("not a JSON object")
    ELSE IF ~HasReply(p.val) THEN Reject("missing reply")
    ELSE IF GetReply(p.val).t # "string" THEN Reject("reply must be a string")
    ELSE IF NumKeys(p.val) > 1 THEN Reject("unexpected fields")
    ELSE Accept(GetReply(p.val).s)

validateLLMResponse(raw) == Only({checkParsed(parsed) : parsed \in {tryParse(raw)}})

(***************************************************************************)
(* validateSummaryLength: TRUE iff it returns without throwing.            *)
(***************************************************************************)
RECURSIVE SumContentLength(_, _)
\* chat.messages.reduce((sum, m) => sum + m.content.length, 0)
SumContentLength(messages, i) ==
    IF i > Len(messages) THEN 0
    ELSE Len(messages[i].content) + SumContentLength(messages, i + 1)

\* variant: a summary of exactly the greatest length is refused too
validateSummaryLength_inclusive(summary, chat) ==
    LET totalLength == SumContentLength(chat.messages, 1)
        maxLength   == Max(totalLength, 1) * 2
    IN  ~(Len(summary) >= maxLength)

validateSummaryLength(summary, chat) ==
    LET totalLength == SumContentLength(chat.messages, 1)
        maxLength   == Max(totalLength, 1) * 2
    IN  ~(Len(summary) > maxLength)

(***************************************************************************)
(* State.                                                                  *)
(***************************************************************************)
VARIABLES
    chats,      \* this.chats: the registered chat references, in order
    heap,       \* the Chat objects ever allocated, by reference
    calls,      \* the sendMessage / updateSummary invocations
    inflight,   \* the promises of executeWithTimeout whose llm.executeLLM
                \* has not completed yet
    now,        \* the last value returned by Date.now()
    snapshot,   \* the value returned by the last getChats
    reads,      \* number of getChats calls made
    edits,      \* number of changes the caller made to the last snapshot
    deleted,    \* history: the references passed to deleteChat
    ghost,      \* history of every call
    trial       \* a direct call of a validator: its arguments and its result

vars == <<chats, heap, calls, inflight, now, snapshot, reads, edits, deleted, ghost,
         trial>>

\* the state of LLMChat, its calls and its callers
program == <<chats, heap, calls, inflight, now, snapshot, reads, edits, deleted, ghost>>

Q == "\""
\* backend outputs: {"reply": "Hello"} between json fences, and text that
\* is not JSON
RawHello == Fence \o JsonTag \o <<"\n", "{", Q, "r","e","p","l","y", Q, ":", " ",
                                   Q, "H","e","l","l","o", Q, "}", "\n">> \o Fence
RawBad   == <<"o","o","p","s">>
RawResponses == {RawHello, RawBad}

\* the backend output {"reply": ""}
RawEmpty == <<"{", Q, "r","e","p","l","y", Q, ":", " ", Q, Q, "}">>

\* validateLLMResponse on the backend outputs, evaluated once
Validated == [raw \in RawResponses \cup {RawEmpty} |-> validateLLMResponse(raw)]

\* how llm.executeLLM(prompt) completes
Outcomes == [type : {"resolve"}, raw : RawResponses]
              \cup {[type |-> "reject", raw |-> << >>]}
TimedOut == [type |-> "timeout", raw |-> << >>]

\* an Error object: its message and the attempt that created it
Err(msg, c, attempt) == [msg |-> msg, call |-> c, attempt |-> attempt]
NoErr == Err("none", 0, 0)

NoPrompt == [template |-> "none", chatHistory |-> << >>, lastMessage |-> << >>]
NoChat   == [name |-> << >>, messages |-> << >>, summary |-> << >>,
             historyString |-> << >>]

IdleCall == [kind |-> "none", chat |-> 0, content |-> << >>, prompt |-> NoPrompt,
             validators |-> << >>, attempt |-> 0, pc |-> "idle",
             response |-> << >>, error |-> NoErr, wait |-> 0]

\* history of a call: the backend invocations it issued, the attempts that
\* failed, the raw text of the attempt that passed, the indexes of the
\* messages it appended, whether no other call on its chat was in flight
\* during it, the summary before it, the messages and historyString after
\* its synchronous prefix, and the backoff waits it made
IdleGhost == [invocations |-> 0, failures |-> 0, passed |-> << >>,
              appended |-> << >>, alone |-> TRUE, summary0 |-> << >>,
              messages1 |-> << >>, history1 |-> << >>, waits |-> << >>]

\* no validator is called directly
NoTrial == [kind |-> "none"]

InitProgram ==
    /\ chats = << >>
    /\ heap = [r \in {} |-> NoChat]
    /\ calls = [c \in CallIds |-> IdleCall]
    /\ inflight = {}
    /\ now = 0
    /\ snapshot = << >>
    /\ reads = 0
    /\ edits = 0
    /\ deleted = {}
    /\ ghost = [c \in CallIds |-> IdleGhost]

Init == InitProgram /\ trial = NoTrial

(***************************************************************************)
(* The conversation store.                                                 *)
(***************************************************************************)
makeChat(name) ==
    [name |-> name, messages |-> << >>, summary |-> << >>, historyString |-> << >>]

\* variant: the new chat is put in front of the others
MakeChat_unshift(name) ==
    LET ref == Cardinality(DOMAIN heap) + 1
    IN  /\ ref <= MaxChats
        /\ heap' = [r \in DOMAIN heap \cup {ref} |->
                       IF r = ref THEN makeChat(name) ELSE heap[r]]
        /\ chats' = <<ref>> \o chats
        /\ UNCHANGED <<trial, calls, inflight, now, snapshot, reads, edits, deleted, ghost>>

MakeChat(name) ==
    LET ref == Cardinality(DOMAIN heap) + 1
    IN  /\ ref <= MaxChats
        /\ heap' = [r \in DOMAIN heap \cup {ref} |->
                       IF r = ref THEN makeChat(name) ELSE heap[r]]
        /\ chats' = Append(chats, ref)
        /\ UNCHANGED <<trial, calls, inflight, now, snapshot, reads, edits, deleted, ghost>>

\* variant: the filter compares the fields of the chats, not the objects
deleteChat_byValue(list, chat) == SelectSeq(list, LAMBDA c : heap[c] # heap[chat])

\* variant: the filter keeps the chat instead of dropping it
deleteChat_inverted(list, chat) == SelectSeq(list, LAMBDA c : c = chat)

\* this.chats.filter(c => c !== chat)
deleteChat(list, chat) == SelectSeq(list, LAMBDA c : c # chat)

DeleteChat(chat) ==
    /\ chat \in DOMAIN heap
    /\ chats' = deleteChat(chats, chat)
    /\ deleted' = deleted \cup {chat}
    /\ UNCHANGED <<trial, heap, calls, inflight, now, snapshot, reads, edits, ghost>>

\* variant: the chat is replaced by a new chat of that name
renameChat_fresh(chat, newName) == [NoChat EXCEPT !.name = newName]

\* chat.name = newName
renameChat(chat, newName) == [chat EXCEPT !.name = newName]

RenameChat(chat, newName) ==
    /\ chat \in DOMAIN heap
    /\ heap' = [heap EXCEPT ![chat] = renameChat(@, newName)]
    /\ UNCHANGED <<trial, chats, calls, inflight, now, snapshot, reads, edits, deleted, ghost>>

\* What getChats returns is made of objects: chat objects, arrays of
\* messages and message objects.  Each of them is either a new object that
\* belongs to the result (live = FALSE, it holds its own fields) or the
\* stored object itself (live = TRUE, its fields are those in heap).
\* The fields of and index are history: the stored object that was read.

\* { ...msg }: a new object with the fields of message k of the chat
copyMessage(ref, k) ==
    [live |-> FALSE, of |-> ref, index |-> k, val |-> heap[ref].messages[k]]

\* variant: the array of the stored chat itself is returned
copyMessages_shared(ref) == [live |-> TRUE, elems |-> << >>]

\* chat.messages.map(msg => ({ ...msg })): a new array of new objects
copyMessages(ref) ==
    [live |-> FALSE,
     elems |-> [k \in 1..Len(heap[ref].messages) |-> copyMessage(ref, k)]]

\* the object literal getChats builds for one chat
copyChat(ref) ==
    [live |-> FALSE, of |-> ref,
     name |-> heap[ref].name,
     summary |-> heap[ref].summary,
     historyString |-> heap[ref].historyString,
     messages |-> copyMessages(ref)]

getChats(list) == [i \in 1..Len(list) |-> copyChat(list[i])]

GetChats ==
    /\ reads < MaxReads
    /\ reads' = reads + 1
    /\ edits' = 0
    /\ snapshot' = getChats(chats)
    /\ UNCHANGED <<trial, chats, heap, calls, inflight, now, deleted, ghost>>

\* the fields a reader of a returned message, message array, chat and
\* result sees, given the stored chats h
MessageSeen(m, h) == IF m.live THEN h[m.of].messages[m.index] ELSE m.val
MessagesSeen(e, h) ==
    IF e.messages.live THEN h[e.of].messages
    ELSE [k \in 1..Len(e.messages.elems) |-> MessageSeen(e.messages.elems[k], h)]
ChatSeen(e, h) ==
    IF e.live THEN h[e.of]
    ELSE [name |-> e.name, messages |-> MessagesSeen(e, h), summary |-> e.summary,
          historyString |-> e.historyString]
Seen(result, h) == [i \in 1..Len(result) |-> ChatSeen(result[i], h)]

\* what the caller writes into the objects it was given
Scribble == <<"Z">>
Edits == {"name", "summary", "historyString", "push", "pop",
          "role", "content", "timestamp"}

\* the assignment copy.field = Scribble on a chat record
setField(chat, field) ==
    IF field = "name" THEN [chat EXCEPT !.name = Scribble]
    ELSE IF field = "summary" THEN [chat EXCEPT !.summary = Scribble]
    ELSE [chat EXCEPT !.historyString = Scribble]

\* push / pop on an array of messages or of returned message objects
editArray(arr, edit, elem) ==
    IF edit = "push" THEN Append(arr, elem) ELSE SubSeq(arr, 1, Len(arr) - 1)

\* the assignment message.field = ... on a message record
setMessageField(msg, field) ==
    IF field = "role" THEN [msg EXCEPT !.role = RoleLLM]
    ELSE IF field = "content" THEN [msg EXCEPT !.content = Scribble]
    ELSE [msg EXCEPT !.timestamp = MaxTime + 1]

\* the caller changes element i of the array getChats returned: one of its
\* string fields, its message array, or a field of its last message.  The
\* write goes to the object the caller holds: to the stored object where
\* that is what was returned.
MutateSnapshot(i, edit) ==
    LET e     == snapshot[i]
        fresh == [role |-> RoleUser, content |-> Scribble, timestamp |-> 0]
        n     == Len(MessagesSeen(e, heap))
    IN  /\ edits < MaxEdits
        /\ i \in 1..Len(snapshot)
        /\ edit \in {"pop", "role", "content", "timestamp"} => n > 0
        /\ edits' = edits + 1
        /\ IF edit \in {"name", "summary", "historyString"}
           THEN IF e.live
                THEN /\ heap' = [heap EXCEPT ![e.of] = setField(@, edit)]
                     /\ UNCHANGED snapshot
                ELSE /\ snapshot' = [snapshot EXCEPT ![i] = setField(@, edit)]
                     /\ UNCHANGED heap
           ELSE IF edit \in {"push", "pop"}
           THEN IF e.live \/ e.messages.live
                THEN /\ heap' = [heap EXCEPT ![e.of].messages = editArray(@, edit, fresh)]
                     /\ UNCHANGED snapshot
                ELSE /\ snapshot' = [snapshot EXCEPT ![i].messages.elems =
                            editArray(@, edit, [live |-> FALSE, of |-> 0,
                                                index |-> 0, val |-> fresh])]
                     /\ UNCHANGED heap
           ELSE IF e.live \/ e.messages.live
                THEN /\ heap' = [heap EXCEPT ![e.of].messages[n] =
                            setMessageField(@, edit)]
                     /\ UNCHANGED snapshot
                ELSE IF e.messages.elems[n].live
                THEN /\ heap' = [heap EXCEPT
                            ![e.messages.elems[n].of].messages[e.messages.elems[n].index] =
                                setMessageField(@, edit)]
                     /\ UNCHANGED snapshot
                ELSE /\ snapshot' = [snapshot EXCEPT ![i].messages.elems[n].val =
                            setMessageField(@, edit)]
                     /\ UNCHANGED heap
        /\ UNCHANGED <<trial, chats, calls, inflight, now, reads, deleted, ghost>>

(***************************************************************************)
(* The orchestrator.                                                       *)
(***************************************************************************)
Message(role, content, ts) == [role |-> role, content |-> content, timestamp |-> ts]

\* Date.now(): time does not go back
Clock == {t \in {now, now + 1} : t <= MaxTime}

\* variant: the role is not upper-cased
appendToHistory_lowercase(chat, message) ==
    [chat EXCEPT !.historyString =
        @ \o <<"[">> \o message.role \o <<"]", " ">>
          \o message.content \o <<"\n">>]

appendToHistory(chat, message) ==
    [chat EXCEPT !.historyString =
        @ \o <<"[">> \o toUpperCase(message.role) \o <<"]", " ">>
          \o message.content \o <<"\n">>]

\* chat.messages.push(msg); this.appendToHistory(chat, msg)
saveMessage(chat, msg) ==
    appendToHistory([chat EXCEPT !.messages = Append(@, msg)], msg)

\* the prompt templates: the fixed text of a template is its name
createConversationPrompt(chatHistory, lastMessage) ==
    [template |-> "conversation", chatHistory |-> chatHistory,
     lastMessage |-> lastMessage]

createSummaryPrompt(chatHistory) ==
    [template |-> "summary", chatHistory |-> chatHistory, lastMessage |-> << >>]

\* variant: the extra validators are not called
runValidators_skipped(validators, reply, chat) == TRUE

\* validators.forEach(v => v(response.reply, chat)): TRUE iff none throws
runValidators(validators, reply, chat) ==
    \A i \in 1..Len(validators) :
        validators[i] = "validateSummaryLength" => validateSummaryLength(reply, chat)

\* the try block of one attempt, given how the awaited promise settled
tryAttempt(outcome, validators, chat) ==
    IF outcome.type = "reject" THEN Reject("backend error")
    ELSE IF outcome.type = "timeout" THEN Reject("LLM call timed out")
    ELSE LET response == Validated[outcome.raw]
         IN  IF ~response.ok THEN response
             ELSE IF ~runValidators(validators, response.reply, chat)
                  THEN [ok |-> FALSE, reply |-> response.reply,
                        msg |-> "summary too long"]
             ELSE response

\* variant: the last error is wrapped in the generic error
catchAttempt_generic(attempt, error) ==
    IF attempt = maxRetries
    THEN [throw |-> TRUE, error |-> Err("Unexpected LLM failure", error.call, 0),
          wait |-> 0]
    ELSE [throw |-> FALSE, error |-> error, wait |-> backoffMs * attempt]

\* variant: the loop gives up one attempt early
catchAttempt_early(attempt, error) ==
    IF attempt = maxRetries - 1
    THEN [throw |-> TRUE, error |-> error, wait |-> 0]
    ELSE [throw |-> FALSE, error |-> error, wait |-> backoffMs * attempt]

\* variant: the wait does not grow with the attempt
catchAttempt_flat(attempt, error) ==
    IF attempt = maxRetries
    THEN [throw |-> TRUE, error |-> error, wait |-> 0]
    ELSE [throw |-> FALSE, error |-> error, wait |-> backoffMs]

\* the catch block of one attempt: rethrow, or wait and go round the loop
catchAttempt(attempt, error) ==
    IF attempt = maxRetries
    THEN [throw |-> TRUE, error |-> error, wait |-> 0]
    ELSE [throw |-> FALSE, error |-> error, wait |-> backoffMs * attempt]

\* variant: the reply is saved with the role of the user
sendMessageResume_role(chat, result, ts) ==
    IF result.ok THEN saveMessage(chat, Message(RoleUser, result.reply, ts))
    ELSE chat

\* variant: a failed call takes the last message back
sendMessageResume_rollback(chat, result, ts) ==
    IF result.ok THEN saveMessage(chat, Message(RoleLLM, result.reply, ts))
    ELSE [chat EXCEPT !.messages = SubSeq(@, 1, Len(@) - 1)]

\* variant: the model message does not hold the reply
sendMessageResume_blank(chat, result, ts) ==
    IF result.ok THEN saveMessage(chat, Message(RoleLLM, << >>, ts))
    ELSE chat

\* sendMessage after its await: the response or the exception of the cycle
sendMessageResume(chat, result, ts) ==
    IF result.ok THEN saveMessage(chat, Message(RoleLLM, result.reply, ts))
    ELSE chat

\* variant: the summary is written before the outcome is known
updateSummaryResume_always(chat, result) ==
    [chat EXCEPT !.summary = result.reply]

\* variant: the summary is also recorded as a message
updateSummaryResume_append(chat, result) ==
    IF result.ok
    THEN saveMessage([chat EXCEPT !.summary = result.reply],
                     Message(RoleLLM, result.reply, 0))
    ELSE chat

\* updateSummary after its await
updateSummaryResume(chat, result) ==
    IF result.ok THEN [chat EXCEPT !.summary = result.reply]
    ELSE chat

RECURSIVE SumInvocations(_)
SumInvocations(c) == IF c = 0 THEN 0 ELSE ghost[c].invocations + SumInvocations(c - 1)
\* the backend can take one more invocation
CanInvoke == SumInvocations(MaxCalls) < MaxInvocations
\* one more abandoned backend call can be kept
LateRoom == Cardinality({q \in inflight : q.settled}) < MaxLate

InFlight(c) == calls[c].pc \in {"awaitLLM", "backoff"}
NextCall(c) == calls[c].kind = "none" /\ \A d \in 1..(c - 1) : calls[d].kind # "none"

\* history: calls on the same chat that overlap are no longer alone
Overlap(c, chat) ==
    [d \in CallIds |->
        IF d # c /\ InFlight(d) /\ calls[d].chat = chat
        THEN [ghost[d] EXCEPT !.alone = FALSE] ELSE ghost[d]]

\* executeWithTimeout: a new promise, its timer armed, llm.executeLLM called
executeWithTimeout(c, attempt, prompt) ==
    [call |-> c, attempt |-> attempt, prompt |-> prompt, timer |-> timeoutMs,
     settled |-> FALSE]

\* entry of callLLMWithValidation up to the first await of attempt 1
StartCycle(c, kind, chat, content, chat1, prompt, validators) ==
    /\ CanInvoke
    /\ heap' = [heap EXCEPT ![chat] = chat1]
    /\ calls' = [calls EXCEPT ![c] =
            [IdleCall EXCEPT !.kind = kind, !.chat = chat, !.content = content,
                             !.prompt = prompt, !.validators = validators,
                             !.attempt = 1, !.pc = "awaitLLM"]]
    /\ inflight' = inflight \cup {executeWithTimeout(c, 1, prompt)}
    /\ ghost' = [Overlap(c, chat) EXCEPT ![c] =
            [IdleGhost EXCEPT
                !.invocations = 1,
                !.appended = [i \in 1..(Len(chat1.messages) - Len(heap[chat].messages))
                                 |-> Len(heap[chat].messages) + i],
                !.alone = ~\E d \in CallIds : InFlight(d) /\ calls[d].chat = chat,
                !.summary0 = heap[chat].summary,
                !.messages1 = chat1.messages,
                !.history1 = chat1.historyString]]

\* variant: the user message is not saved before the backend is called
SendMessage_unsaved(c, chat, content) ==
    /\ NextCall(c)
    /\ chat \in DOMAIN heap
    /\ \E ts \in Clock :
        LET chat1   == heap[chat]
            prompt  == createConversationPrompt(chat1.historyString, content)
        IN  /\ now' = ts
            /\ StartCycle(c, "sendMessage", chat, content, chat1, prompt, << >>)
    /\ UNCHANGED <<trial, chats, snapshot, reads, edits, deleted>>

SendMessage(c, chat, content) ==
    /\ NextCall(c)
    /\ chat \in DOMAIN heap
    /\ \E ts \in Clock :
        LET userMsg == Message(RoleUser, content, ts)
            chat1   == saveMessage(heap[chat], userMsg)
            prompt  == createConversationPrompt(chat1.historyString, content)
        IN  /\ now' = ts
            /\ StartCycle(c, "sendMessage", chat, content, chat1, prompt, << >>)
    /\ UNCHANGED <<trial, chats, snapshot, reads, edits, deleted>>

\* updateSummary throws before anything else when the chat has no message
ThrowEmpty(c, chat) ==
    /\ calls' = [calls EXCEPT ![c] =
            [IdleCall EXCEPT !.kind = "updateSummary", !.chat = chat,
                             !.pc = "failed",
                             !.error = Err("empty chat", c, 0)]]
    /\ ghost' = [ghost EXCEPT ![c] =
            [IdleGhost EXCEPT !.summary0 = heap[chat].summary]]
    /\ UNCHANGED <<heap, inflight>>

\* variant: the chat is not tested for messages
UpdateSummary_unchecked(c, chat) ==
    /\ NextCall(c)
    /\ chat \in DOMAIN heap
    /\ StartCycle(c, "updateSummary", chat, << >>, heap[chat],
                  createSummaryPrompt(heap[chat].historyString),
                  <<"validateSummaryLength">>)
    /\ UNCHANGED <<trial, chats, now, snapshot, reads, edits, deleted>>

UpdateSummary(c, chat) ==
    /\ NextCall(c)
    /\ chat \in DOMAIN heap
    /\ IF Len(heap[chat].messages) = 0
       THEN ThrowEmpty(c, chat)
       ELSE StartCycle(c, "updateSummary", chat, << >>, heap[chat],
                       createSummaryPrompt(heap[chat].historyString),
                       <<"validateSummaryLength">>)
    /\ UNCHANGED <<trial, chats, now, snapshot, reads, edits, deleted>>

\* the code that runs when the promise awaited by attempt calls[c].attempt
\* settles with outcome: the rest of the try block, then either the return
\* through sendMessage / updateSummary, or the catch block
Settle(c, outcome, ts) ==
    LET call   == calls[c]
        chat   == heap[call.chat]
        result == tryAttempt(outcome, call.validators, chat)
        error  == Err(result.msg, c, call.attempt)
        caught == catchAttempt(call.attempt, error)
        ended  == result.ok \/ caught.throw
        chat1  == IF call.kind = "sendMessage"
                  THEN sendMessageResume(chat, result, ts)
                  ELSE updateSummaryResume(chat, result)
    IN  /\ calls' = [calls EXCEPT ![c] =
               IF result.ok
               THEN [call EXCEPT !.pc = "done", !.response = result.reply]
               ELSE IF caught.throw
               THEN [call EXCEPT !.pc = "failed", !.error = caught.error]
               ELSE [call EXCEPT !.pc = "backoff", !.wait = caught.wait]]
        /\ heap' = IF ended THEN [heap EXCEPT ![call.chat] = chat1] ELSE heap
        /\ now' = IF result.ok /\ call.kind = "sendMessage" THEN ts ELSE now
        /\ ghost' = [ghost EXCEPT ![c] =
               [@ EXCEPT
                   !.failures = IF result.ok THEN @ ELSE @ + 1,
                   !.passed = IF result.ok THEN outcome.raw ELSE @,
                   !.waits = IF ended THEN @ ELSE Append(@, caught.wait),
                   !.appended = IF ended
                                THEN @ \o [i \in 1..(Len(chat1.messages) - Len(chat.messages))
                                              |-> Len(chat.messages) + i]
                                ELSE @]]

\* variant: the result of a call that timed out is handled as if it came
\* in time
ExecuteLLMCompletes_late(p, outcome) ==
    /\ p \in inflight
    /\ inflight' = inflight \ {p}
    /\ IF p.settled /\ calls[p.call].pc # "awaitLLM"
       THEN UNCHANGED <<heap, calls, now, ghost>>
       ELSE \E ts \in Clock : Settle(p.call, outcome, ts)
    /\ UNCHANGED <<trial, chats, snapshot, reads, edits, deleted>>

\* llm.executeLLM completes: its then / catch handler clears the timer and
\* resolves or rejects the promise, which has no effect on a promise that
\* is already settled
ExecuteLLMCompletes(p, outcome) ==
    /\ p \in inflight
    /\ inflight' = inflight \ {p}
    /\ IF p.settled
       THEN UNCHANGED <<heap, calls, now, ghost>>
       ELSE \E ts \in Clock : Settle(p.call, outcome, ts)
    /\ UNCHANGED <<trial, chats, snapshot, reads, edits, deleted>>

\* variant: the rejection by the timer does not reach the attempt loop
TimerFires_silent(p) ==
    /\ p \in inflight
    /\ ~p.settled
    /\ inflight' = (inflight \ {p}) \cup {[p EXCEPT !.settled = TRUE]}
    /\ UNCHANGED <<trial, chats, heap, calls, now, snapshot, reads, edits, deleted, ghost>>

\* the timer of executeWithTimeout fires before llm.executeLLM completes
TimerFires(p) ==
    /\ p \in inflight
    /\ ~p.settled
    /\ inflight' = (inflight \ {p}) \cup {[p EXCEPT !.settled = TRUE]}
    /\ \E ts \in Clock : Settle(p.call, TimedOut, ts)
    /\ UNCHANGED <<trial, chats, snapshot, reads, edits, deleted>>

\* variant: the prompt of a retry is built again from the chat as it is
BackoffEnds_rebuilt(c) ==
    /\ calls[c].pc = "backoff"
    /\ LET attempt == calls[c].attempt + 1
           prompt  == [calls[c].prompt EXCEPT
                          !.chatHistory = heap[calls[c].chat].historyString]
       IN  /\ calls' = [calls EXCEPT ![c].attempt = attempt,
                                     ![c].pc = "awaitLLM", ![c].wait = 0]
           /\ inflight' = inflight \cup {executeWithTimeout(c, attempt, prompt)}
           /\ ghost' = [ghost EXCEPT ![c].invocations = @ + 1]
    /\ UNCHANGED <<trial, chats, heap, now, snapshot, reads, edits, deleted>>

\* the backoff timer fires: attempt++, the loop test, the next attempt
BackoffEnds(c) ==
    /\ calls[c].pc = "backoff"
    /\ LET attempt == calls[c].attempt + 1
       IN  IF attempt <= maxRetries
           THEN /\ calls' = [calls EXCEPT ![c].attempt = attempt,
                                          ![c].pc = "awaitLLM", ![c].wait = 0]
                /\ inflight' = inflight \cup
                                 {executeWithTimeout(c, attempt, calls[c].prompt)}
                /\ ghost' = [ghost EXCEPT ![c].invocations = @ + 1]
           ELSE /\ calls' = [calls EXCEPT ![c].pc = "failed", ![c].wait = 0,
                        ![c].error = Err("Unexpected LLM failure", c, attempt)]
                /\ UNCHANGED <<inflight, ghost>>
    /\ UNCHANGED <<trial, chats, heap, now, snapshot, reads, edits, deleted>>

Next ==
    \/ \E name \in Names : MakeChat(name)
    \/ \E chat \in ChatRefs : DeleteChat(chat)
    \/ \E chat \in ChatRefs, newName \in Names : RenameChat(chat, newName)
    \/ GetChats
    \/ \E i \in ChatRefs, edit \in Edits : MutateSnapshot(i, edit)
    \/ \E c \in CallIds, chat \in ChatRefs, content \in Contents :
           SendMessage(c, chat, content)
    \/ \E c \in CallIds, chat \in ChatRefs : UpdateSummary(c, chat)
    \/ \E p \in inflight, outcome \in Outcomes : ExecuteLLMCompletes(p, outcome)
    \/ \E p \in inflight : LateRoom /\ TimerFires(p)
    \/ \E c \in CallIds : CanInvoke /\ BackoffEnds(c)

Spec == Init /\ [][Next]_vars

(***************************************************************************)
(* The store with every operation, and one call.                           *)
(***************************************************************************)
NextStore ==
    \/ \E name \in Names : MakeChat(name)
    \/ \E chat \in ChatRefs : DeleteChat(chat)
    \/ \E chat \in ChatRefs, newName \in Names : RenameChat(chat, newName)
    \/ GetChats
    \/ \E i \in ChatRefs, edit \in Edits : MutateSnapshot(i, edit)
    \/ \E chat \in ChatRefs, content \in Contents : SendMessage(1, chat, content)
    \/ \E chat \in ChatRefs : UpdateSummary(1, chat)
    \/ \E p \in inflight, outcome \in Outcomes : ExecuteLLMCompletes(p, outcome)
    \/ \E p \in inflight : LateRoom /\ TimerFires(p)
    \/ CanInvoke /\ BackoffEnds(1)

SpecStore == Init /\ [][NextStore]_vars

(***************************************************************************)
(* One chat, which may be deleted, and concurrent calls on it.             *)
(***************************************************************************)
NextChat ==
    \/ DOMAIN heap = {} /\ MakeChat(<<"X">>)
    \/ \E chat \in ChatRefs : DeleteChat(chat)
    \/ \E c \in CallIds, chat \in ChatRefs : SendMessage(c, chat, <<"H", "i">>)
    \/ \E c \in CallIds, chat \in ChatRefs : UpdateSummary(c, chat)
    \/ \E p \in inflight, outcome \in Outcomes : ExecuteLLMCompletes(p, outcome)
    \/ \E p \in inflight : LateRoom /\ TimerFires(p)
    \/ \E c \in CallIds : CanInvoke /\ BackoffEnds(c)

SpecChat == Init /\ [][NextChat]_vars

(***************************************************************************)
(* One chat and two calls, with a backend that may also answer with an     *)
(* empty reply.                                                            *)
(***************************************************************************)
NextReply ==
    \/ DOMAIN heap = {} /\ MakeChat(<<"X">>)
    \/ \E c \in {1, 2}, chat \in ChatRefs : SendMessage(c, chat, <<"H", "i">>)
    \/ \E c \in {1, 2}, chat \in ChatRefs : UpdateSummary(c, chat)
    \/ \E p \in inflight, outcome \in Outcomes \cup {[type |-> "resolve", raw |-> RawEmpty]} :
           ExecuteLLMCompletes(p, outcome)
    \/ \E p \in inflight : LateRoom /\ TimerFires(p)
    \/ \E c \in {1, 2} : CanInvoke /\ BackoffEnds(c)

SpecReply == Init /\ [][NextReply]_vars

(***************************************************************************)
(* One chat and two calls, with timers that fire: the timer of a promise   *)
(* that is not settled fires unless the backend call completes first, and  *)
(* a backoff timer fires.  Nothing is assumed of the backend, which may    *)
(* leave any invocation without an answer for ever.                        *)
(***************************************************************************)
LiveCalls == {1, 2}

\* the timer of the promise that call c awaits fires
TimerOf(c) == \E p \in inflight : p.call = c /\ TimerFires(p)

NextLive ==
    \/ DOMAIN heap = {} /\ MakeChat(<<"X">>)
    \/ \E c \in LiveCalls, chat \in ChatRefs : SendMessage(c, chat, <<"H", "i">>)
    \/ \E c \in LiveCalls, chat \in ChatRefs : UpdateSummary(c, chat)
    \/ \E p \in inflight, outcome \in Outcomes : ExecuteLLMCompletes(p, outcome)
    \/ \E c \in LiveCalls : TimerOf(c)
    \/ \E c \in LiveCalls : BackoffEnds(c)

SpecLive ==
    /\ Init
    /\ [][NextLive]_vars
    /\ \A c \in LiveCalls : WF_vars(TimerOf(c)) /\ WF_vars(BackoffEnds(c))

(***************************************************************************)
(* The validators called directly.  The argument of validateLLMResponse is *)
(* the text of a JSON document, written compact or spaced, bare or between *)
(* fences; the document is kept beside the text.                           *)
(***************************************************************************)
MaxMembers == 2      \* members of the object of a document

RECURSIVE Flatten(_)
Flatten(ss) == IF ss = << >> THEN << >> ELSE Head(ss) \o Flatten(Tail(ss))

\* the JSON text of a string
EscapeChar(ch) ==
    IF ch = Q THEN <<"\\", Q>>
    ELSE IF ch = "\\" THEN <<"\\", "\\">>
    ELSE IF ch = "\n" THEN <<"\\", "n">>
    ELSE IF ch = "\t" THEN <<"\\", "t">>
    ELSE <<ch>>
RenderString(str) ==
    <<Q>> \o Flatten([i \in 1..Len(str) |-> EscapeChar(str[i])]) \o <<Q>>

\* JSON values: the type, the text, and for a string its characters
StringValue(str) == [t |-> "string", text |-> RenderString(str), s |-> str]
OtherValue(t, text) == [t |-> t, text |-> text, s |-> << >>]

Texts == { << >>, <<"o","k">>, <<"a", Q, "\\", "\n">>, <<"a", Backtick, "b">>,
           <<"a", Backtick, Backtick, Backtick, "b">> }
Values ==
    {StringValue(str) : str \in Texts} \cup
    { OtherValue("number", <<"-","1","2">>),
      OtherValue("null", <<"n","u","l","l">>),
      OtherValue("array", <<"[","1",","," ","2","]">>),
      OtherValue("object", <<"{","}">>) }

Keys == { ReplyKey, <<"x">>, <<"R","e","p","l","y">> }
Members == [key : Keys, val : Values]

\* text that is no JSON document
Garbage == { <<"o","o","p","s">>, << >>,
             <<"{", Q, "r","e","p","l","y", Q, ":">>,
             <<"{", Q, "r","e","p","l","y", Q, ":", Q, "a", Q, ",", "}">>,
             <<"{", "r","e","p","l","y", ":", Q, "a", Q, "}">>,
             <<"{", Q, "r","e","p","l","y", Q, ":", Q, "a", Q, "}", "x">> }

Documents ==
    [form : {"object"}, members : UNION {[1..n -> Members] : n \in 0..MaxMembers},
     val : {OtherValue("null", << >>)}, text : {<< >>}]
    \cup [form : {"value"}, members : {<< >>}, val : Values, text : {<< >>}]
    \cup [form : {"garbage"}, members : {<< >>},
          val : {OtherValue("null", << >>)}, text : Garbage]

\* white space between the tokens of a document
Gap(style) == IF style = "spaced" THEN <<" ", "\n">> ELSE << >>

RenderMember(m, style) ==
    RenderString(m.key) \o <<":">> \o Gap(style) \o m.val.text

RenderDocument(doc, style) ==
    IF doc.form = "garbage" THEN doc.text
    ELSE IF doc.form = "value" THEN Gap(style) \o doc.val.text \o Gap(style)
    ELSE <<"{">> \o Gap(style)
         \o Flatten([i \in 1..Len(doc.members) |->
                (IF i > 1 THEN <<",">> \o Gap(style) ELSE << >>)
                    \o RenderMember(doc.members[i], style)])
         \o Gap(style) \o <<"}">>

\* the text bare, between fences, or between fences with a language tag
Fences == {"none", "fence", "json", "ts"}
Wrap(text, fence) ==
    IF fence = "none" THEN text
    ELSE IF fence = "fence" THEN Fence \o <<"\n">> \o text \o <<"\n">> \o Fence
    ELSE IF fence = "json" THEN Fence \o JsonTag \o <<"\n">> \o text \o <<"\n">> \o Fence
    ELSE Fence \o <<"t", "s", "\n">> \o text \o <<"\n">> \o Fence

ResponseTrials ==
    {[kind |-> "validateLLMResponse", doc |-> doc, style |-> style, fence |-> fence,
      raw |-> Wrap(RenderDocument(doc, style), fence), done |-> FALSE,
      result |-> Reject("none")] :
        doc \in Documents, style \in {"compact", "spaced"},
        fence \in Fences}

\* The arguments of validateSummaryLength: a chat of up to MaxMessages
\* messages whose contents have the lengths lens, and a summary of length
\* size.
MaxMessages == 2     \* messages of the chat
MaxContent  == 5     \* length of the content of a message
MaxSummary  == 21    \* length of the summary

TextOfLength(n) == [i \in 1..n |-> "a"]

SummaryTrials ==
    {[kind |-> "validateSummaryLength", lens |-> lens, size |-> size,
      chat |-> [NoChat EXCEPT !.messages =
                   [i \in 1..Len(lens) |->
                       Message(IF i % 2 = 1 THEN RoleUser ELSE RoleLLM,
                               TextOfLength(lens[i]), 0)]],
      summary |-> TextOfLength(size), done |-> FALSE, passed |-> FALSE] :
        lens \in UNION {[1..k -> 0..MaxContent] : k \in 0..MaxMessages},
        size \in 0..MaxSummary}

\* validateLLMResponse(raw) is called
ValidateResponse ==
    /\ trial.kind = "validateLLMResponse"
    /\ ~trial.done
    /\ trial' = [trial EXCEPT !.done = TRUE, !.result = validateLLMResponse(trial.raw)]
    /\ UNCHANGED program

\* validateSummaryLength(summary, chat) is called
ValidateSummary ==
    /\ trial.kind = "validateSummaryLength"
    /\ ~trial.done
    /\ trial' = [trial EXCEPT !.done = TRUE,
                              !.passed = validateSummaryLength(trial.summary, trial.chat)]
    /\ UNCHANGED program

InitValidators == InitProgram /\ trial \in ResponseTrials \cup SummaryTrials

NextValidators ==
    \/ ValidateResponse
    \/ ValidateSummary

SpecValidators == InitValidators /\ [][NextValidators]_vars

(***************************************************************************)
(* Properties.                                                             *)
(***************************************************************************)
Started(c)  == calls[c].kind # "none"
IsSend(c)   == calls[c].kind = "sendMessage"
IsSummary(c) == calls[c].kind = "updateSummary"
ChatOf(c)   == heap[calls[c].chat]
\* the step ends call c with the given pc
Ends(c, pc) == calls[c].pc # pc /\ calls'[c].pc = pc

\* the text of a role in historyString, written out
RoleTag(role) == IF role = RoleUser THEN <<"U","S","E","R">>
                 ELSE IF role = RoleLLM THEN <<"L","L","M">>
                 ELSE <<"?">>

RECURSIVE Rendering(_, _)
Rendering(messages, n) ==
    IF n = 0 THEN << >>
    ELSE Rendering(messages, n - 1) \o <<"[">> \o RoleTag(messages[n].role)
           \o <<"]", " ">> \o messages[n].content \o <<"\n">>

\* C1: in every reachable state the historyString of every chat, registered
\* or not, is the concatenation in list order of "[ROLE] content\n" over its
\* messages.
C1_HistoryIsRendering ==
    \A r \in DOMAIN heap :
        heap[r].historyString = Rendering(heap[r].messages, Len(heap[r].messages))

\* two calls on a deleted chat interleaved, one failed and one succeeded
C1_Witness ==
    \E r \in deleted, c \in CallIds, d \in CallIds :
        /\ calls[c].chat = r /\ calls[c].pc = "failed" /\ IsSend(c)
        /\ calls[d].chat = r /\ calls[d].pc = "done" /\ IsSend(d)
        /\ ~ghost[c].alone
        /\ Len(heap[r].messages) >= 3

\* C2: every sendMessage call that has issued a backend invocation has
\* appended exactly one user message, with the given content, before any
\* other message of the call, and the prompt given to the backend was built
\* from the history that ends with that message; this holds whatever the
\* outcome of the call.
C2_UserMessageFirst ==
    \A c \in CallIds : IsSend(c) =>
        LET idx  == ghost[c].appended
            msgs == ChatOf(c).messages
        IN  /\ ghost[c].invocations >= 1
            /\ Len(idx) >= 1
            /\ msgs[idx[1]].role = RoleUser
            /\ msgs[idx[1]].content = calls[c].content
            /\ Cardinality({i \in 1..Len(idx) : msgs[idx[i]].role = RoleUser}) = 1
            /\ calls[c].prompt.chatHistory = Rendering(msgs, idx[1])
            /\ \A p \in inflight : p.call = c => p.prompt = calls[c].prompt

\* one sendMessage failed and another succeeded
C2_Witness ==
    \E c \in CallIds, d \in CallIds :
        /\ IsSend(c) /\ calls[c].pc = "failed"
        /\ IsSend(d) /\ calls[d].pc = "done"

\* C3: the step that completes a sendMessage successfully leaves the call
\* with exactly two appended messages, its user message before its model
\* message, the model message holding the reply returned; when no other
\* call on the chat was in flight during the call the two are adjacent and
\* last in the list.
C3_SuccessAppendsTwo ==
    [][\A c \in CallIds : (Ends(c, "done") /\ calls'[c].kind = "sendMessage") =>
          LET idx  == ghost'[c].appended
              msgs == heap'[calls'[c].chat].messages
          IN  /\ Len(idx) = 2
              /\ idx[1] < idx[2]
              /\ msgs[idx[1]].role = RoleUser
              /\ msgs[idx[1]].content = calls'[c].content
              /\ msgs[idx[2]].role = RoleLLM
              /\ msgs[idx[2]].content = calls'[c].response
              /\ ghost'[c].alone => (idx[2] = idx[1] + 1 /\ idx[2] = Len(msgs))]_vars

C3_Witness ==
    \E c \in CallIds, d \in CallIds :
        /\ IsSend(c) /\ calls[c].pc = "done" /\ ghost[c].alone
        /\ IsSend(d) /\ calls[d].pc = "done" /\ ~ghost[d].alone

\* C4 as stated: when a sendMessage call fails, messages and historyString
\* are the values they had right after the user append and summary is the
\* value it had before the call.
C4_Original ==
    [][\A c \in CallIds : (Ends(c, "failed") /\ calls'[c].kind = "sendMessage") =>
          /\ heap'[calls'[c].chat].messages = ghost[c].messages1
          /\ heap'[calls'[c].chat].historyString = ghost[c].history1
          /\ heap'[calls'[c].chat].summary = ghost[c].summary0]_vars

\* C4 amended: the step in which a sendMessage call fails changes no chat,
\* the call has appended its user message and nothing else, and when no
\* other call on the chat was in flight during the call, messages and
\* historyString are the values they had right after the user append and
\* summary is the value it had before the call.
C4_FailureKeepsUserMessage ==
    [][\A c \in CallIds : (Ends(c, "failed") /\ calls'[c].kind = "sendMessage") =>
          /\ heap' = heap
          /\ Len(ghost'[c].appended) = 1
          /\ heap'[calls'[c].chat].messages[ghost'[c].appended[1]].role = RoleUser
          /\ ghost'[c].failures = maxRetries
          /\ ghost'[c].alone =>
                /\ heap'[calls'[c].chat].messages = ghost[c].messages1
                /\ heap'[calls'[c].chat].historyString = ghost[c].history1
                /\ heap'[calls'[c].chat].summary = ghost[c].summary0]_vars

\* a sendMessage failed with no other call on its chat during it
C4_Witness ==
    \E c \in CallIds :
        /\ IsSend(c) /\ calls[c].pc = "failed" /\ ghost[c].alone
        /\ ghost[c].failures = maxRetries
        /\ ChatOf(c).messages = ghost[c].messages1

\* C5: a call whose attempts all failed fails with the Error object of its
\* last attempt, not with the error of an earlier attempt and not with the
\* generic Unexpected LLM failure error.
C5_LastErrorSurfaced ==
    \A c \in CallIds :
        (calls[c].pc = "failed" /\ ghost[c].invocations > 0) =>
            /\ ghost[c].failures = maxRetries
            /\ calls[c].error.call = c
            /\ calls[c].error.attempt = maxRetries
            /\ calls[c].error.msg \in {"backend error", "LLM call timed out",
                                       "not valid JSON", "summary too long"}

\* an updateSummary has failed on the length check of its third attempt
C5_Witness ==
    \E d \in CallIds :
        /\ IsSummary(d) /\ calls[d].pc = "failed" /\ calls[d].error.attempt = 3
        /\ calls[d].error.msg = "summary too long"

\* C6: a call never issues more than maxRetries backend invocations; while
\* it waits for the backend it has issued one invocation more than attempts
\* have failed; when an attempt passes after k failures the call returns the
\* reply of that attempt with k + 1 invocations issued; it fails only after
\* maxRetries failures.
C6_InvocationCount ==
    \A c \in CallIds : ghost[c].invocations > 0 =>
        /\ ghost[c].invocations <= maxRetries
        /\ ghost[c].invocations = calls[c].attempt
        /\ calls[c].pc = "awaitLLM" => ghost[c].failures = ghost[c].invocations - 1
        /\ calls[c].pc = "backoff" =>
              ghost[c].failures = ghost[c].invocations /\ ghost[c].failures < maxRetries
        /\ calls[c].pc = "done" =>
              /\ ghost[c].invocations = ghost[c].failures + 1
              /\ validateLLMResponse(ghost[c].passed).ok
              /\ calls[c].response = validateLLMResponse(ghost[c].passed).reply
        /\ calls[c].pc = "failed" =>
              ghost[c].failures = maxRetries /\ ghost[c].invocations = maxRetries

\* a call returned on its third attempt, another on its second
C6_Witness ==
    \E c \in CallIds, d \in CallIds :
        /\ calls[c].pc = "done" /\ ghost[c].failures = 2 /\ ghost[c].invocations = 3
        /\ calls[d].pc = "done" /\ ghost[d].failures = 1 /\ ghost[d].invocations = 2

\* C7: updateSummary on a chat without messages fails in its first step with
\* the empty-chat error, issues no backend invocation, changes no chat, and
\* is never retried.
C7_EmptyChatFailsAtOnce ==
    [][\A c \in CallIds :
          /\ (~Started(c) /\ calls'[c].kind = "updateSummary"
                /\ Len(heap[calls'[c].chat].messages) = 0) =>
                /\ calls'[c].pc = "failed"
                /\ calls'[c].error.msg = "empty chat"
                /\ ghost'[c].invocations = 0
                /\ inflight' = inflight
                /\ heap' = heap
                /\ chats' = chats
          /\ calls[c].error.msg = "empty chat" =>
                (calls'[c] = calls[c] /\ ghost'[c].invocations = 0)]_vars

C7_Witness ==
    \E c \in CallIds :
        /\ calls[c].pc = "failed" /\ calls[c].error.msg = "empty chat"
        /\ \E d \in CallIds : d > c /\ Started(d)

\* C8 as stated: when an updateSummary call fails after its attempts, the
\* summary of the chat is the value it had before the call.
C8_Original ==
    [][\A c \in CallIds :
          (Ends(c, "failed") /\ calls'[c].kind = "updateSummary"
             /\ ghost'[c].invocations > 0) =>
                heap'[calls'[c].chat].summary = ghost[c].summary0]_vars

\* C8 amended: no step of an updateSummary call other than its successful
\* completion changes a chat, so a failed updateSummary never writes
\* summary; when no other call on the chat was in flight during the failed
\* call, summary is the value it had before the call.
C8_FailureKeepsSummary ==
    [][\A c \in CallIds :
          (calls'[c] # calls[c] /\ calls'[c].kind = "updateSummary"
             /\ calls'[c].pc # "done") =>
                /\ heap' = heap
                /\ (Ends(c, "failed") /\ ghost'[c].alone) =>
                       heap'[calls'[c].chat].summary = ghost[c].summary0]_vars

\* an updateSummary failed over a chat that had a summary
C8_Witness ==
    \E c \in CallIds :
        /\ IsSummary(c) /\ calls[c].pc = "failed" /\ ghost[c].alone
        /\ ghost[c].failures = maxRetries
        /\ ChatOf(c).summary # << >>

\* C9: the step that completes an updateSummary successfully sets the
\* summary of its chat to the reply returned and changes nothing else: no
\* message is appended, and messages, historyString, name, the other chats
\* and the registry are unchanged.
C9_SummaryWriteOnly ==
    [][\A c \in CallIds : (Ends(c, "done") /\ calls'[c].kind = "updateSummary") =>
          /\ heap' = [heap EXCEPT ![calls[c].chat].summary = calls'[c].response]
          /\ calls'[c].response = validateLLMResponse(ghost'[c].passed).reply
          /\ ghost'[c].appended = << >>
          /\ chats' = chats]_vars

C9_Witness ==
    \E c \in CallIds :
        /\ IsSummary(c) /\ calls[c].pc = "done"
        /\ ChatOf(c).summary = calls[c].response
        /\ ChatOf(c).summary # << >>

\* C10: a getChats call returns no copy of a chat that was passed to
\* deleteChat before, and a deleted chat is never registered again, also
\* while calls on it are in flight or are started after the deletion.
C10_NoDeletedChatListed ==
    [][/\ reads' # reads => \A i \in 1..Len(snapshot') : snapshot'[i].of \notin deleted
       /\ \A i \in 1..Len(chats') : chats'[i] \notin deleted']_vars

\* getChats ran after chat 2 was created and chat 1 deleted, with a call on
\* chat 1
C10_Witness ==
    /\ reads = 1
    /\ 1 \in deleted
    /\ \E i \in 1..Len(snapshot) : snapshot[i].of = 2
    /\ \A i \in 1..Len(snapshot) : snapshot[i].of # 1
    /\ calls[1].chat = 1 /\ calls[1].pc = "done"

\* C11: getChats returns copies, not live references: a step in which the
\* caller changes a returned chat, message array or message changes no
\* stored chat and not the registry, so a later getChats reports what it
\* would have reported without the change; and a step of the store or of a
\* call changes nothing that is seen through the result returned earlier.
C11_CopiesNotLive ==
    [][/\ (edits' = edits + 1) =>
            /\ heap' = heap
            /\ chats' = chats
            /\ Seen(getChats(chats), heap)' = Seen(getChats(chats), heap)
       /\ (edits' = edits /\ reads' = reads) =>
            Seen(snapshot, heap') = Seen(snapshot, heap)]_vars

\* the caller changed the last message of a returned chat, and the stored
\* chat got another message after it was returned
C11_Witness ==
    /\ edits = 1
    /\ \E i \in 1..Len(snapshot) :
          LET e == snapshot[i]
          IN  /\ Len(e.messages.elems) > 0
              /\ e.messages.elems[Len(e.messages.elems)].val.content = Scribble
              /\ Len(heap[e.of].messages) > Len(e.messages.elems)
              /\ heap[e.of].messages[Len(e.messages.elems)].content # Scribble
\* the references of seq, and whether they are in the order of creation
\* (references are handed out in increasing order)
Range(seq) == {seq[i] : i \in 1..Len(seq)}
InCreationOrder(seq) == \A i, j \in 1..Len(seq) : i < j => seq[i] < seq[j]

C13_DeleteByIdentity ==
    [][\A r \in DOMAIN heap :
          /\ (r \in deleted' \ deleted) =>
                /\ heap' = heap
                /\ Range(chats') = Range(chats) \ {r}
                /\ Len(chats') = Len(chats) - 1
                /\ InCreationOrder(chats')
          /\ (r \in deleted) => deleteChat(chats, r) = chats]_vars

\* one of two chats with the same name and contents was deleted and the
\* other is registered
C13_Witness ==
    /\ DOMAIN heap = {1, 2}
    /\ heap[1] = heap[2]
    /\ \E r \in {1, 2} : deleted = {r} /\ chats = <<3 - r>>
\* C14: a step that changes the name of a stored chat while the caller
\* writes to no returned object is a renameChat: it sets the name of that
\* one chat to a name given, and changes no other field of it, no other
\* chat and not the registry; a getChats after it reports the new name for
\* the chat, at the place the chat had.
C14_RenameOnlyName ==
    [][\A r \in DOMAIN heap :
          (heap'[r].name # heap[r].name /\ edits' = edits) =>
              /\ heap'[r].name \in Names
              /\ heap' = [heap EXCEPT ![r].name = heap'[r].name]
              /\ chats' = chats
              /\ \A i \in 1..Len(chats) : chats[i] = r =>
                     /\ Seen(getChats(chats), heap)'[i].name = heap'[r].name
                     /\ Seen(getChats(chats), heap)'[i].messages = heap[r].messages]_vars

\* a registered chat with messages was renamed after getChats returned it
C14_Witness ==
    /\ edits = 0
    /\ \E i \in 1..Len(snapshot) :
          /\ snapshot[i].of \in Range(chats)
          /\ snapshot[i].name # heap[snapshot[i].of].name
          /\ Len(snapshot[i].messages.elems) > 0
\* what a JSON document denotes: an object whose only key is reply, with a
\* string as its value (of members with the same key the last one counts)
ReplyOnly(doc) ==
    /\ doc.form = "object"
    /\ Len(doc.members) > 0
    /\ \A i \in 1..Len(doc.members) : doc.members[i].key = ReplyKey
    /\ doc.members[Len(doc.members)].val.t = "string"

Envelope(doc) ==
    /\ doc.form = "object"
    /\ Len(doc.members) = 1
    /\ doc.members[1].key = ReplyKey
    /\ doc.members[1].val.t = "string"

C17_NoEmptyReply ==
    /\ \A c \in CallIds : calls[c].pc = "done" => calls[c].response # << >>
    /\ \A r \in DOMAIN heap : \A i \in 1..Len(heap[r].messages) :
          heap[r].messages[i].role = RoleLLM => heap[r].messages[i].content # << >>
\* the sum of the numbers of a sequence
RECURSIVE Sum(_)
Sum(ns) == IF ns = << >> THEN 0 ELSE Head(ns) + Sum(Tail(ns))

\* C18: validateSummaryLength throws exactly when the summary is longer
\* than twice the total length of the contents of the messages of the chat,
\* the total counted as 1 when it is 0: with total 10 a summary of length 20
\* passes and one of 21 fails, with total 0 one of 2 passes and one of 3 fails.
C18_SummaryLengthBound ==
    (trial.kind = "validateSummaryLength" /\ trial.done) =>
        LET total == Sum(trial.lens)
        IN  /\ trial.passed <=> trial.size <= 2 * (IF total = 0 THEN 1 ELSE total)
            /\ (total = 10 /\ trial.size = 20) => trial.passed
            /\ (total = 10 /\ trial.size = 21) => ~trial.passed
            /\ (total = 0 /\ trial.size = 2) => trial.passed
            /\ (total = 0 /\ trial.size = 3) => ~trial.passed

\* a summary of length 20 passed for a chat whose two messages total 10
C18_Witness ==
    /\ trial.kind = "validateSummaryLength" /\ trial.done
    /\ Len(trial.lens) = 2 /\ Sum(trial.lens) = 10
    /\ trial.size = 20
    /\ trial.passed
Pending(c) == {p \in inflight : p.call = c /\ ~p.settled}

\* C20: an attempt has one outcome.  A call that waits for the backend
\* waits for one promise, that of its current attempt; an attempt fails or
\* passes in the step that settles that promise and in no other; when the
\* timer settles it the attempt fails, once, and the call goes on to its
\* wait, or fails with the timeout error if the attempt was the last; the
\* result of a backend call that arrives after its timer has fired changes
\* no chat, no call and no history of a call: it is not returned, not
\* appended, not written to summary and decides no other attempt.
C20_OneOutcomePerAttempt ==
    [][/\ \A c \in CallIds :
            /\ calls[c].pc = "awaitLLM" =>
                  /\ Cardinality(Pending(c)) = 1
                  /\ \A p \in Pending(c) : p.attempt = calls[c].attempt
            /\ calls[c].pc # "awaitLLM" => Pending(c) = {}
            /\ ghost'[c].failures \in {ghost[c].failures, ghost[c].failures + 1}
            /\ (ghost'[c].failures # ghost[c].failures \/ Ends(c, "done")) =>
                  /\ ~(ghost'[c].failures # ghost[c].failures /\ Ends(c, "done"))
                  /\ \E p \in Pending(c) :
                        p.attempt = calls[c].attempt /\ p \notin inflight'
       /\ \A p \in inflight :
            /\ (p.settled /\ p \notin inflight') =>
                  /\ heap' = heap
                  /\ calls' = calls
                  /\ ghost' = ghost
            /\ (~p.settled /\ [p EXCEPT !.settled = TRUE] \in inflight') =>
                  /\ ghost'[p.call].failures = ghost[p.call].failures + 1
                  /\ calls'[p.call].pc =
                        IF p.attempt = maxRetries THEN "failed" ELSE "backoff"
                  /\ p.attempt = maxRetries =>
                        calls'[p.call].error = Err("LLM call timed out", p.call, maxRetries)
                  /\ heap' = heap]_vars

\* a call failed because its last attempt timed out, another call is at a
\* later attempt, and every backend call that had timed out has completed
C20_Witness ==
    /\ \A p \in inflight : ~p.settled
    /\ \E c \in CallIds, d \in CallIds :
          /\ calls[c].pc = "failed" /\ calls[c].error.msg = "LLM call timed out"
          /\ calls[d].pc = "awaitLLM" /\ calls[d].attempt = 2

\* the messages that call c appended: its user message and its model message
UserIndex(c)  == ghost[c].appended[1]
ModelIndex(c) == ghost[c].appended[2]

\* C21: sendMessage calls on one conversation are not serialized, yet in
\* every interleaving each call has its own messages: no message belongs to
\* two calls, and the user message of a call that returned comes before the
\* model message of that call, which holds the reply of that call.
C21_OwnMessagesInOrder ==
    \A c \in CallIds : IsSend(c) =>
        LET idx  == ghost[c].appended
            msgs == ChatOf(c).messages
        IN  /\ \A d \in CallIds \ {c} :
                  IsSend(d) /\ calls[d].chat = calls[c].chat =>
                      Range(idx) \cap Range(ghost[d].appended) = {}
            /\ calls[c].pc = "done" =>
                  /\ Len(idx) = 2
                  /\ UserIndex(c) < ModelIndex(c)
                  /\ msgs[UserIndex(c)].role = RoleUser
                  /\ msgs[ModelIndex(c)].role = RoleLLM
                  /\ msgs[ModelIndex(c)].content = calls[c].response

\* three calls on one conversation returned: the user message of b lies
\* between the two messages of a; the model messages of a and b came in the
\* order opposite to their user messages, those of a and c in the same order
C21_Witness ==
    \E a \in CallIds, b \in CallIds, c \in CallIds :
        /\ \A x \in {a, b, c} : IsSend(x) /\ calls[x].pc = "done" /\ calls[x].chat = 1
        /\ UserIndex(a) < UserIndex(b) /\ UserIndex(b) < ModelIndex(a)
        /\ ModelIndex(b) < ModelIndex(a)
        /\ UserIndex(a) < UserIndex(c) /\ ModelIndex(a) < ModelIndex(c)

\* s is the beginning of t
IsPrefix(s, t) == Len(s) <= Len(t) /\ SubSeq(t, 1, Len(s)) = s

\* C22: the message list of a conversation is append-only.  In every step,
\* whatever the operation, every chat that exists still exists, its message
\* list before the step is a prefix of its message list after the step, and
\* its historyString before the step is a prefix of its historyString after
\* the step; a prefix of a prefix being a prefix, the same holds between any
\* earlier and any later state.
C22_AppendOnly ==
    [][\A r \in DOMAIN heap :
          /\ r \in DOMAIN heap'
          /\ IsPrefix(heap[r].messages, heap'[r].messages)
          /\ IsPrefix(heap[r].historyString, heap'[r].historyString)]_vars

\* a chat that was read through getChats and then deleted holds the two
\* messages of a sendMessage that returned, and another chat was made
C22_Witness ==
    \E r \in DOMAIN heap :
        /\ r \in deleted /\ reads > 0
        /\ calls[1].pc = "done" /\ IsSend(1) /\ calls[1].chat = r
        /\ Len(heap[r].messages) = 2
        /\ DOMAIN heap # {r}

\* C23: the prompt of a sendMessage call is built once.  Every backend
\* invocation of the call, first attempt or retry, abandoned or not, was
\* given the conversation prompt made of the user text and of the
\* historyString as it was when the call had appended its user message,
\* which ends with the rendering of that message; the chat may hold more by
\* then.
C23_PromptBuiltOnce ==
    \A p \in inflight : IsSend(p.call) =>
        LET c == p.call
        IN  /\ p.prompt = createConversationPrompt(ghost[c].history1, calls[c].content)
            /\ ghost[c].history1 =
                  Rendering(ghost[c].messages1, Len(ghost[c].messages1))
            /\ ghost[c].messages1[Len(ghost[c].messages1)].role = RoleUser
            /\ ghost[c].messages1[Len(ghost[c].messages1)].content = calls[c].content
            /\ IsPrefix(ghost[c].messages1, ChatOf(c).messages)

\* the third attempt of a sendMessage is in flight and the conversation has
\* got two more messages since the call appended its user message
C23_Witness ==
    \E p \in inflight :
        /\ IsSend(p.call) /\ p.attempt = 3 /\ ~p.settled
        /\ Len(ChatOf(p.call).messages) = Len(ghost[p.call].messages1) + 2
        /\ ChatOf(p.call).historyString # ghost[p.call].history1

\* C24: every call completes.  A sendMessage or updateSummary call that
\* has started returns or fails in the end, whatever the backend does and
\* also if it never answers, as long as the timers fire; and no call ever
\* issues more than maxRetries backend invocations.
C24_EveryCallCompletes ==
    /\ [](\A c \in CallIds : ghost[c].invocations <= maxRetries
                             /\ calls[c].attempt <= maxRetries)
    /\ \A c \in LiveCalls : Started(c) ~> (calls[c].pc \in {"done", "failed"})

\* a call has failed after maxRetries attempts and the backend has answered
\* none of its invocations
C24_Witness ==
    \E c \in LiveCalls :
        /\ calls[c].pc = "failed"
        /\ ghost[c].invocations = maxRetries
        /\ Cardinality({p \in inflight : p.call = c /\ p.settled}) = maxRetries

\* C25: in the step in which an updateSummary call returns, the summary
\* written is the reply of the call, and the history embedded in the prompt
\* of the call is the historyString of the conversation as it is when the
\* summary is written, also when a sendMessage on the conversation ran
\* during the call.
C25_SummaryOfCurrentHistory ==
    [][\A c \in CallIds : (Ends(c, "done") /\ IsSummary(c)) =>
          /\ heap'[calls[c].chat].summary = calls'[c].response
          /\ calls[c].prompt = createSummaryPrompt(heap'[calls[c].chat].historyString)]_vars

\* 2 * max(total, 1), total the sum of the content lengths of the messages
SummaryBound(chat) == 2 * Max(Sum([i \in 1..Len(chat.messages) |->
                                      Len(chat.messages[i].content)]), 1)

\* C26: in every state the summary of a conversation is empty or not longer
\* than twice the total length of the contents of its messages (taken as at
\* least 1); and the summary changes only in the step in which an
\* updateSummary call on the conversation returns, to a reply that passed
\* the structural validation and the length check against the messages of
\* that moment.
C26_SummaryWithinBound ==
    /\ [](\A r \in DOMAIN heap :
             \/ heap[r].summary = << >>
             \/ Len(heap[r].summary) <= SummaryBound(heap[r]))
    /\ [][\A r \in DOMAIN heap : heap'[r].summary # heap[r].summary =>
             \E c \in CallIds :
                /\ Ends(c, "done") /\ IsSummary(c) /\ calls[c].chat = r
                /\ Validated[ghost'[c].passed].ok
                /\ heap'[r].summary = Validated[ghost'[c].passed].reply
                /\ Len(heap'[r].summary) <= SummaryBound(heap[r])
                /\ heap'[r].messages = heap[r].messages]_vars

\* an updateSummary call failed because every reply was too long for the
\* messages of the time, and a later one wrote the same reply as summary
C26_Witness ==
    \E c \in CallIds, d \in CallIds :
        /\ IsSummary(c) /\ calls[c].pc = "failed"
        /\ calls[c].error.msg = "summary too long"
        /\ IsSummary(d) /\ calls[d].pc = "done" /\ calls[d].chat = calls[c].chat
        /\ ChatOf(d).summary = calls[d].response
        /\ ChatOf(d).summary # << >>
=============================================================================
